---------------------------- MODULE Spec2Model ----------------------------
(***************************************************************************)
(* Model of the cosmic-octaves permutation-testing scripts:                *)
(*   src/src/octave_analysis.py       library (deviations, count, scanner) *)
(*   src/code/permutation_test.py     fixed-delta permutation driver        *)
(*   src/code/delta_scan.py           look-elsewhere (scanned) driver       *)
(*   src/src/force_clustering_test.py cross-domain driver                   *)
(*                                                                         *)
(* Numbers.  Every log10 length, spacing, threshold and step is an exact   *)
(* decimal fixed-point number counted in thousandths of a decade           *)
(* (24.0 is 24000, 0.2 is 200, 0.05 is 50, 18.665 is 18665).  Python's     *)
(* indices are kept 0-based in the Pair Set and in n_base; TLA+ sequences  *)
(* are 1-based, so values[i] of the source is arr[i + 1] here.             *)
(* A quotient (a p-value) is the exact fraction [num, den].                *)
(* rng.permutation is a nondeterministic choice among all rearrangements.  *)
(***************************************************************************)
EXTENDS Integers, Sequences, FiniteSets

(***************************************************************************)
(* Program constants                                                       *)
(***************************************************************************)
\* delta=24.0 default of get_deviations / count_strong_matches
DEFAULT_DELTA == 24000
\* threshold=0.2 default of count_strong_matches; literal 0.2 of the scripts
DEFAULT_THRESHOLD == 200
\* delta_min=22.0, delta_max=26.0, step=0.05 defaults of the scanners
DEFAULT_DELTA_MIN == 22000
DEFAULT_DELTA_MAX == 26000
DEFAULT_STEP == 50
\* min(args.n_trials, 2000) under --smoke
SMOKE_TRIALS == 2000
\* dmde = np.array([21.0, 26.5])
DMDE == <<21000, 26500>>

(***************************************************************************)
(* Bounds of the model                                                     *)
(***************************************************************************)
\* largest trial count a driver is started with (besides the --smoke run)
MaxTrials == 3
\* how far above SMOKE_TRIALS the --smoke run's requested n_trials lies
SmokeExcess == 1

(***************************************************************************)
(* Values that are not numbers                                             *)
(***************************************************************************)
NoValue == <<"unset">>
\* a p-value that was not computed (no computed quotient has denominator 0)
NoFraction == [num |-> 0, den |-> 0]
\* float('nan'), None and a float best_delta, kept apart from each other
NaN == <<"nan">>
None == <<"None">>
Float(v) == <<"float", v>>

abs(x) == IF x < 0 THEN -x ELSE x

Min2(a, b) == IF a < b THEN a ELSE b

Max2(a, b) == IF a > b THEN a ELSE b

\* ceil(a / b) for b # 0, as used for the length of np.arange
CeilDiv(a, b) ==
    IF b > 0 THEN -((-a) \div b) ELSE -(a \div (-b))

(***************************************************************************)
(* src/src/octave_analysis.py                                              *)
(***************************************************************************)
\* np.array([abs((logs_arr[j] - logs_arr[i]) - delta) for i, j in pairs])
oa_get_deviations(logs_arr, delta_, pairs_) ==
    [k \in 1..Len(pairs_) |->
        abs((logs_arr[pairs_[k][2] + 1] - logs_arr[pairs_[k][1] + 1]) - delta_)]

\* variant: np.sum(devs < threshold)
RECURSIVE np_sum_lt(_, _)
np_sum_lt(devs, threshold_) ==
    IF devs = <<>> THEN 0
    ELSE (IF Head(devs) < threshold_ THEN 1 ELSE 0) + np_sum_lt(Tail(devs), threshold_)

\* np.sum(devs <= threshold): one is added for every entry within threshold
RECURSIVE np_sum_le(_, _)
np_sum_le(devs, threshold_) ==
    IF devs = <<>> THEN 0
    ELSE (IF Head(devs) <= threshold_ THEN 1 ELSE 0) + np_sum_le(Tail(devs), threshold_)

count_strong_matches(logs_arr, delta_, threshold_, pairs_) ==
    np_sum_le(oa_get_deviations(logs_arr, delta_, pairs_), threshold_)

\* np.arange divides (stop - start) by step to size the array: a step of 0
\* raises (ZeroDivisionError, or ValueError for numpy scalars) and the scanner
\* raises with it, before its loop
arange_raises(step_) == step_ = 0

\* len(np.arange(delta_min, delta_max + step/2, step)) =
\* ceil((delta_max + step/2 - delta_min) / step), never negative; numerator and
\* denominator are doubled so that the half step stays an integer
scan_len(delta_min_, delta_max_, step_) ==
    Max2(0, CeilDiv(2 * (delta_max_ - delta_min_) + step_, 2 * step_))

\* np.arange(delta_min, delta_max + step/2, step): element k is start + k*step
scan_deltas(delta_min_, delta_max_, step_) ==
    [k \in 1..scan_len(delta_min_, delta_max_, step_) |-> delta_min_ + (k - 1) * step_]

\* the for loop of max_strong_matches_in_scan, from grid index k on
RECURSIVE oa_scan_loop(_, _, _, _, _, _, _)
oa_scan_loop(logs_arr, deltas, k, max_strong, best_delta, threshold_, pairs_) ==
    IF k > Len(deltas) THEN [max_strong |-> max_strong, best_delta |-> best_delta]
    ELSE LET strong == count_strong_matches(logs_arr, deltas[k], threshold_, pairs_)
         IN  IF strong > max_strong
             THEN oa_scan_loop(logs_arr, deltas, k + 1, strong, Float(deltas[k]),
                               threshold_, pairs_)
             ELSE oa_scan_loop(logs_arr, deltas, k + 1, max_strong, best_delta,
                               threshold_, pairs_)

\* max_strong = -1, best_delta = float('nan') before the loop
oa_max_strong_matches_in_scan(logs_arr, delta_min_, delta_max_, step_, threshold_, pairs_) ==
    oa_scan_loop(logs_arr, scan_deltas(delta_min_, delta_max_, step_), 1, -1, NaN,
                 threshold_, pairs_)

(***************************************************************************)
(* src/code/delta_scan.py and src/code/permutation_test.py                 *)
(* Both read the module-level Pair Set; it is the argument pairs_ here.    *)
(***************************************************************************)
\* delta_scan.get_deviations(array, delta)
ds_get_deviations(array, delta_, pairs_) ==
    [k \in 1..Len(pairs_) |->
        abs((array[pairs_[k][2] + 1] - array[pairs_[k][1] + 1]) - delta_)]

\* variant: the distance |L_j - L_i| taken before the spacing is subtracted
pt_get_deviations_abs_diff(array, delta_, pairs_) ==
    [k \in 1..Len(pairs_) |->
        abs(abs(array[pairs_[k][2] + 1] - array[pairs_[k][1] + 1]) - delta_)]

\* permutation_test.get_deviations(array, delta=24.0)
pt_get_deviations(array, delta_, pairs_) ==
    [k \in 1..Len(pairs_) |->
        abs((array[pairs_[k][2] + 1] - array[pairs_[k][1] + 1]) - delta_)]

\* the for loop of delta_scan.max_strong_matches_in_scan, from grid index k on
RECURSIVE ds_scan_loop(_, _, _, _, _, _)
ds_scan_loop(array, deltas, k, max_strong, best_delta, pairs_) ==
    IF k > Len(deltas) THEN [max_strong |-> max_strong, best_delta |-> best_delta]
    ELSE LET strong == np_sum_le(ds_get_deviations(array, deltas[k], pairs_),
                                 DEFAULT_THRESHOLD)
         IN  IF strong > max_strong
             THEN ds_scan_loop(array, deltas, k + 1, strong, Float(deltas[k]), pairs_)
             ELSE ds_scan_loop(array, deltas, k + 1, max_strong, best_delta, pairs_)

\* max_strong = 0, best_delta = None before the loop
ds_max_strong_matches_in_scan(array, delta_min_, delta_max_, step_, pairs_) ==
    ds_scan_loop(array, scan_deltas(delta_min_, delta_max_, step_), 1, 0, None, pairs_)

(***************************************************************************)
(* src/src/force_clustering_test.py                                        *)
(***************************************************************************)
\* one test of the inner loops: abs((arr[j] - arr[i]) - delta) <= thresh
strong_pair(arr, i_, j_, delta_, thresh) ==
    abs((arr[j_ + 1] - arr[i_ + 1]) - delta_) <= thresh

\* an inner loop "for j in range(j_, len(arr))" adding one per strong pair
RECURSIVE inner_loop(_, _, _, _, _)
inner_loop(arr, i_, j_, delta_, thresh) ==
    IF j_ >= Len(arr) THEN 0
    ELSE (IF strong_pair(arr, i_, j_, delta_, thresh) THEN 1 ELSE 0)
         + inner_loop(arr, i_, j_ + 1, delta_, thresh)

\* variant: the inner loop of the all-pairs count, range(i+1, len(arr))
RECURSIVE cross_outer_loop_from_next(_, _, _, _, _)
cross_outer_loop_from_next(arr, n_base_, i_, delta_, thresh) ==
    IF i_ >= n_base_ THEN 0
    ELSE inner_loop(arr, i_, i_ + 1, delta_, thresh)
         + cross_outer_loop_from_next(arr, n_base_, i_ + 1, delta_, thresh)

\* for i in range(n_base): for j in range(n_base, len(arr)), from i_ on
RECURSIVE cross_outer_loop(_, _, _, _, _)
cross_outer_loop(arr, n_base_, i_, delta_, thresh) ==
    IF i_ >= n_base_ THEN 0
    ELSE inner_loop(arr, i_, n_base_, delta_, thresh)
         + cross_outer_loop(arr, n_base_, i_ + 1, delta_, thresh)

count_strong_cross_domain(arr, n_base_, delta_, thresh) ==
    cross_outer_loop(arr, n_base_, 0, delta_, thresh)

\* variant: the inner loop starts one index late, range(i+2, n)
all_pairs_first_j_late(i_) == i_ + 2

\* first j of the inner loop of count_strong_all_pairs: range(i+1, n)
all_pairs_first_j(i_) == i_ + 1

\* for i in range(n): for j in range(i+1, n), from i_ on
RECURSIVE all_outer_loop(_, _, _, _)
all_outer_loop(arr, i_, delta_, thresh) ==
    IF i_ >= Len(arr) THEN 0
    ELSE inner_loop(arr, i_, all_pairs_first_j(i_), delta_, thresh)
         + all_outer_loop(arr, i_ + 1, delta_, thresh)

count_strong_all_pairs(arr, delta_, thresh) ==
    all_outer_loop(arr, 0, delta_, thresh)

\* variant: resampling with replacement, rng.choice(arr, size=len(arr))
rng_resample(arr) ==
    {[k \in 1..Len(arr) |-> arr[f[k]]] : f \in [1..Len(arr) -> 1..Len(arr)]}

\* rng.permutation(logs): a new array, some rearrangement of the argument
rng_permutation(arr) ==
    {[k \in 1..Len(arr) |-> arr[f[k]]] :
        f \in {g \in [1..Len(arr) -> 1..Len(arr)] :
                  \A a, b \in 1..Len(arr) : g[a] = g[b] => a = b}}

\* p = count_exceeds / n_trials
p_value(count, n) == [num |-> count, den |-> n]

\* variant: the numerator without its added one
p_upper_value_no_add(count, n) == [num |-> count, den |-> n + 1]

\* p_upper = (count_exceeds + 1) / (n_trials + 1)
p_upper_value(count, n) == [num |-> count + 1, den |-> n + 1]

(***************************************************************************)
(* State                                                                   *)
(***************************************************************************)
VARIABLES
    script,          \* which program runs: a driver script or a library caller
    logs,            \* the Scale Sequence (base_logs until main concatenates)
    pairs,           \* the Pair Set, 0-based (i, j)
    force_logs,      \* rows load_force_scales reads from data/force_scales.csv
    args,            \* n_trials, delta, threshold, smoke, append_dmde
    scan,            \* delta_min, delta_max, step handed to a scanner
    n_trials,        \* the trial count the loop runs with
    n_base,          \* len(base_logs)
    pc,              \* "start", "loop", "done", "error"; a caller: "lib", "returned", "raised"
    observed_strong, \* the statistic of the unpermuted sequence
    obs_best_delta,  \* delta_scan.py: best delta of the observed scan
    i,               \* number of finished trials
    permuted,        \* the array the last trial drew (empty before the first)
    count_exceeds,   \* trials so far with statistic >= observed
    random_counts,   \* the Null Distribution
    p,               \* empirical p-value
    p_upper,         \* add-one upper bound
    fn,              \* library caller: the function called last
    arg,             \* library caller: the array passed to it
    deltas,          \* library caller: the spacings a scanner went through
    ret              \* library caller: the tuple of values it returned

vars == <<script, logs, pairs, force_logs, args, scan, n_trials, n_base, pc,
          observed_strong, obs_best_delta, i, permuted, count_exceeds,
          random_counts, p, p_upper, fn, arg, deltas, ret>>

config_vars == <<script, pairs, force_logs, args, scan>>

lib_vars == <<fn, arg, deltas, ret>>

(***************************************************************************)
(* Inputs                                                                  *)
(***************************************************************************)
\* Scale Sequences with the Pair Sets the fixed-pair scripts are run on
PairedInputs ==
    { [logs |-> <<0, 24000>>,        pairs |-> << <<0, 1>> >>],
      [logs |-> <<0, 24200, 24201>>, pairs |-> << <<0, 1>>, <<0, 2>> >>],
      [logs |-> <<0, 1000, 2000>>,   pairs |-> << >>] }

\* base structures, force scales of the CSV and --append-dmde
ForceInputs ==
    { [base |-> <<0, 24100>>, force |-> <<24000>>, append_dmde |-> FALSE],
      [base |-> <<0>>,        force |-> <<24000>>, append_dmde |-> FALSE],
      [base |-> <<0, 100>>,   force |-> <<>>,      append_dmde |-> FALSE],
      [base |-> <<-3000>>,    force |-> <<>>,      append_dmde |-> TRUE] }

\* --delta and --threshold
ForceDeltas == {DEFAULT_DELTA, 0}

DefaultArgs ==
    [n_trials |-> 0, delta |-> DEFAULT_DELTA, threshold |-> DEFAULT_THRESHOLD,
     smoke |-> FALSE, append_dmde |-> FALSE]

DefaultScan ==
    [delta_min |-> DEFAULT_DELTA_MIN, delta_max |-> DEFAULT_DELTA_MAX,
     step |-> DEFAULT_STEP]

\* what every program starts with before its first statement
Idle ==
    /\ n_base = 0
    /\ pc = "start"
    /\ observed_strong = NoValue
    /\ obs_best_delta = NoValue
    /\ i = 0
    /\ permuted = <<>>
    /\ count_exceeds = 0
    /\ random_counts = <<>>
    /\ p = NoFraction
    /\ p_upper = NoFraction
    /\ fn = "none"
    /\ arg = <<>>
    /\ deltas = <<>>
    /\ ret = <<>>

\* permutation_test.py and delta_scan.py: n_trials is a literal of the script
InitPaired ==
    /\ script \in {"permutation_test", "delta_scan"}
    /\ \E inp \in PairedInputs : logs = inp.logs /\ pairs = inp.pairs
    /\ force_logs = <<>>
    /\ \E n \in 1..MaxTrials : args = [DefaultArgs EXCEPT !.n_trials = n]
    /\ n_trials = args.n_trials
    /\ scan = DefaultScan
    /\ Idle

\* force_clustering_test.py: argparse accepts any integer --n_trials
InitForce ==
    /\ script = "force_clustering"
    /\ pairs = <<>>
    /\ scan = DefaultScan
    /\ \E inp \in ForceInputs :
         /\ logs = inp.base
         /\ force_logs = inp.force
         /\ \/ \E n \in (-2)..MaxTrials, d \in ForceDeltas, sm \in BOOLEAN :
                 args = [n_trials |-> n, delta |-> d, threshold |-> DEFAULT_THRESHOLD,
                         smoke |-> sm, append_dmde |-> inp.append_dmde]
            \/ /\ inp.force = <<>> /\ ~inp.append_dmde
               /\ args = [n_trials |-> SMOKE_TRIALS + SmokeExcess,
                          delta |-> DEFAULT_DELTA, threshold |-> DEFAULT_THRESHOLD,
                          smoke |-> TRUE, append_dmde |-> FALSE]
    /\ n_trials = args.n_trials
    /\ Idle

Init == InitPaired \/ InitForce

(***************************************************************************)
(* src/code/permutation_test.py                                            *)
(***************************************************************************)
\* line 96: if strong >= observed_strong
pt_exceeds(strong, observed) == strong >= observed

\* lines 74-90: the observed statistic, then the loop's initial values
pt_Start ==
    /\ script = "permutation_test" /\ pc = "start"
    /\ observed_strong' =
          np_sum_le(pt_get_deviations(logs, DEFAULT_DELTA, pairs), DEFAULT_THRESHOLD)
    /\ count_exceeds' = 0
    /\ random_counts' = <<>>
    /\ i' = 0
    /\ pc' = "loop"
    /\ UNCHANGED <<config_vars, lib_vars, logs, n_trials, n_base, obs_best_delta,
                   permuted, p, p_upper>>

\* lines 92-97: one iteration of the trial loop
pt_Trial ==
    /\ script = "permutation_test" /\ pc = "loop" /\ i < n_trials
    /\ \E q \in rng_permutation(logs) :
         LET strong == np_sum_le(pt_get_deviations(q, DEFAULT_DELTA, pairs),
                                 DEFAULT_THRESHOLD)
         IN  /\ permuted' = q
             /\ random_counts' = Append(random_counts, strong)
             /\ count_exceeds' =
                   IF pt_exceeds(strong, observed_strong) THEN count_exceeds + 1
                   ELSE count_exceeds
    /\ i' = i + 1
    /\ UNCHANGED <<config_vars, lib_vars, logs, n_trials, n_base, pc,
                   observed_strong, obs_best_delta, p, p_upper>>

\* line 103: p_value = count / n_trials (this script computes no upper bound)
pt_Finish ==
    /\ script = "permutation_test" /\ pc = "loop" /\ i >= n_trials
    /\ p' = p_value(count_exceeds, n_trials)
    /\ pc' = "done"
    /\ UNCHANGED <<config_vars, lib_vars, logs, n_trials, n_base, observed_strong,
                   obs_best_delta, i, permuted, count_exceeds, random_counts, p_upper>>

(***************************************************************************)
(* src/code/delta_scan.py                                                  *)
(***************************************************************************)
\* line 75: if max_strong >= obs_max_strong
ds_exceeds(max_strong, obs_max_strong) == max_strong >= obs_max_strong

\* lines 52-69: the observed scan; formatting obs_best_delta with :.2f raises
\* TypeError when the scan left it None
ds_Start ==
    /\ script = "delta_scan" /\ pc = "start"
    /\ LET r == ds_max_strong_matches_in_scan(logs, DEFAULT_DELTA_MIN,
                                              DEFAULT_DELTA_MAX, DEFAULT_STEP, pairs)
       IN  /\ observed_strong' = r.max_strong
           /\ obs_best_delta' = r.best_delta
           /\ pc' = IF r.best_delta = None THEN "error" ELSE "loop"
    /\ count_exceeds' = 0
    /\ random_counts' = <<>>
    /\ i' = 0
    /\ UNCHANGED <<config_vars, lib_vars, logs, n_trials, n_base, permuted, p, p_upper>>

\* lines 71-76: one iteration of the trial loop
ds_Trial ==
    /\ script = "delta_scan" /\ pc = "loop" /\ i < n_trials
    /\ \E q \in rng_permutation(logs) :
         LET r == ds_max_strong_matches_in_scan(q, DEFAULT_DELTA_MIN,
                                                DEFAULT_DELTA_MAX, DEFAULT_STEP, pairs)
         IN  /\ permuted' = q
             /\ random_counts' = Append(random_counts, r.max_strong)
             /\ count_exceeds' =
                   IF ds_exceeds(r.max_strong, observed_strong) THEN count_exceeds + 1
                   ELSE count_exceeds
    /\ i' = i + 1
    /\ UNCHANGED <<config_vars, lib_vars, logs, n_trials, n_base, pc,
                   observed_strong, obs_best_delta, p, p_upper>>

\* lines 81-84: p_scan and p_scan_upper
ds_Finish ==
    /\ script = "delta_scan" /\ pc = "loop" /\ i >= n_trials
    /\ p' = p_value(count_exceeds, n_trials)
    /\ p_upper' = p_upper_value(count_exceeds, n_trials)
    /\ pc' = "done"
    /\ UNCHANGED <<config_vars, lib_vars, logs, n_trials, n_base, observed_strong,
                   obs_best_delta, i, permuted, count_exceeds, random_counts>>

(***************************************************************************)
(* src/src/force_clustering_test.py, main()                                *)
(***************************************************************************)
\* --cross-only is store_true with default=True, so count_func is always
\* lambda arr: count_strong_cross_domain(arr, n_base, args.delta, args.threshold)
count_func(arr) ==
    count_strong_cross_domain(arr, n_base, args.delta, args.threshold)

\* variant: --smoke leaves the trial count alone
smoke_trials_ignored(a) == a.n_trials

\* lines 71-72: if args.smoke: args.n_trials = min(args.n_trials, 2000)
smoke_trials(a) ==
    IF a.smoke THEN Min2(a.n_trials, SMOKE_TRIALS) ELSE a.n_trials

\* lines 92-97: base, then the force scales, then the optional DM/DE scales
concat_logs(base_logs, force, a) ==
    base_logs \o force \o (IF a.append_dmde THEN DMDE ELSE <<>>)

\* variant: strictly greater
fc_exceeds_strict(s, observed) == s > observed

\* line 131: if s >= observed_strong
fc_exceeds(s, observed) == s >= observed

\* lines 69-126: arguments, the concatenated sequence, the observed statistic
fc_Start ==
    /\ script = "force_clustering" /\ pc = "start"
    /\ n_trials' = smoke_trials(args)
    /\ n_base' = Len(logs)
    /\ logs' = concat_logs(logs, force_logs, args)
    /\ observed_strong' =
          count_strong_cross_domain(logs', n_base', args.delta, args.threshold)
    /\ count_exceeds' = 0
    /\ random_counts' = <<>>
    /\ i' = 0
    /\ pc' = "loop"
    /\ UNCHANGED <<config_vars, lib_vars, obs_best_delta, permuted, p, p_upper>>

\* lines 127-132: one iteration of the trial loop
fc_Trial ==
    /\ script = "force_clustering" /\ pc = "loop" /\ i < n_trials
    /\ \E q \in rng_permutation(logs) :
         LET s == count_func(q)
         IN  /\ permuted' = q
             /\ random_counts' = Append(random_counts, s)
             /\ count_exceeds' =
                   IF fc_exceeds(s, observed_strong) THEN count_exceeds + 1
                   ELSE count_exceeds
    /\ i' = i + 1
    /\ UNCHANGED <<config_vars, lib_vars, logs, n_trials, n_base, pc,
                   observed_strong, obs_best_delta, p, p_upper>>

\* lines 136-151: the p-values and the report.  count_exceeds / 0 and
\* 1 / 0 raise ZeroDivisionError; min(random_counts) of the histogram raises
\* ValueError on an empty list, after the p-values were printed
fc_Finish ==
    /\ script = "force_clustering" /\ pc = "loop" /\ i >= n_trials
    /\ p' = IF n_trials = 0 THEN p ELSE p_value(count_exceeds, n_trials)
    /\ p_upper' = IF n_trials = 0 \/ n_trials + 1 = 0 THEN p_upper
                  ELSE p_upper_value(count_exceeds, n_trials)
    /\ pc' = IF n_trials = 0 \/ n_trials + 1 = 0 \/ random_counts = <<>>
             THEN "error" ELSE "done"
    /\ UNCHANGED <<config_vars, lib_vars, logs, n_trials, n_base, observed_strong,
                   obs_best_delta, i, permuted, count_exceeds, random_counts>>

Next ==
    \/ pt_Start \/ pt_Trial \/ pt_Finish
    \/ ds_Start \/ ds_Trial \/ ds_Finish
    \/ fc_Start \/ fc_Trial \/ fc_Finish

Spec == Init /\ [][Next]_vars

(***************************************************************************)
(* A caller of the library functions: the inputs are drawn, one function   *)
(* is applied to them, and the caller holds what it returned.              *)
(***************************************************************************)
LibLogs ==
    { <<0, 24000>>, <<0, 24200, 24201>>, <<0, 24000, 48000>>, <<7, 7, 7>>,
      <<0, 24100, 24000>> }

LibPairs ==
    { << >>, << <<0, 1>> >>, << <<0, 1>>, <<0, 2>> >>,
      << <<1, 0>>, <<0, 1>>, <<0, 1>> >>, << <<1, 2>>, <<0, 2>> >> }

LibDeltas == {DEFAULT_DELTA, 24050, 0}

LibThresholds == {DEFAULT_THRESHOLD, 0}

\* scan ranges: whole multiples of the step, a single point, ranges that end
\* between two grid points, the defaults, and ranges with delta_max < delta_min,
\* a negative step or a step of 0
LibScans ==
    { [delta_min |-> 23900, delta_max |-> 24100, step |-> 100],
      [delta_min |-> 24000, delta_max |-> 24000, step |-> 50],
      [delta_min |-> 23900, delta_max |-> 24030, step |-> 100],
      [delta_min |-> 23900, delta_max |-> 24050, step |-> 100],
      [delta_min |-> 23900, delta_max |-> 24080, step |-> 100],
      [delta_min |-> 24100, delta_max |-> 24250, step |-> 75],
      DefaultScan,
      [delta_min |-> 24000, delta_max |-> 23000, step |-> 100],
      [delta_min |-> 24000, delta_max |-> 23980, step |-> 100],
      [delta_min |-> 24100, delta_max |-> 23900, step |-> -100],
      [delta_min |-> 23900, delta_max |-> 24100, step |-> -100],
      [delta_min |-> 24000, delta_max |-> 24000, step |-> -50],
      [delta_min |-> 23900, delta_max |-> 24100, step |-> 0] }

pairs_in_bounds(ps, n) ==
    \A k \in 1..Len(ps) : ps[k][1] \in 0..(n - 1) /\ ps[k][2] \in 0..(n - 1)

InitLib ==
    /\ script = "library"
    /\ logs \in LibLogs
    /\ pairs \in {ps \in LibPairs : pairs_in_bounds(ps, Len(logs))}
    /\ force_logs = <<>>
    /\ \E d \in LibDeltas, t \in LibThresholds :
         args = [DefaultArgs EXCEPT !.delta = d, !.threshold = t]
    /\ scan \in LibScans
    /\ n_trials = 0
    /\ n_base \in 0..Len(logs)
    /\ pc = "lib"
    /\ observed_strong = NoValue
    /\ obs_best_delta = NoValue
    /\ i = 0
    /\ permuted = <<>>
    /\ count_exceeds = 0
    /\ random_counts = <<>>
    /\ p = NoFraction
    /\ p_upper = NoFraction
    /\ fn = "none"
    /\ arg = <<>>
    /\ deltas = <<>>
    /\ ret = <<>>

lib_unchanged ==
    UNCHANGED <<config_vars, logs, n_trials, n_base, observed_strong,
                obs_best_delta, i, permuted, count_exceeds, random_counts, p, p_upper>>

lib_frame ==
    /\ pc' = "returned"
    /\ lib_unchanged

\* octave_analysis.count_strong_matches(logs, delta, threshold, pairs)
call_count_strong_matches ==
    /\ pc = "lib"
    /\ fn' = "count_strong_matches"
    /\ arg' = logs
    /\ deltas' = <<>>
    /\ ret' = <<count_strong_matches(logs, args.delta, args.threshold, pairs)>>
    /\ lib_frame

\* octave_analysis.max_strong_matches_in_scan(logs, delta_min, delta_max, step,
\* threshold, pairs)
call_oa_scan ==
    /\ pc = "lib"
    /\ fn' = "oa_max_strong_matches_in_scan"
    /\ arg' = logs
    /\ IF arange_raises(scan.step)
       THEN /\ deltas' = <<>>
            /\ ret' = <<>>
            /\ pc' = "raised"
       ELSE /\ deltas' = scan_deltas(scan.delta_min, scan.delta_max, scan.step)
            /\ LET r == oa_max_strong_matches_in_scan(logs, scan.delta_min,
                              scan.delta_max, scan.step, args.threshold, pairs)
               IN  ret' = <<r.max_strong, r.best_delta>>
            /\ pc' = "returned"
    /\ lib_unchanged

\* delta_scan.max_strong_matches_in_scan(array, delta_min, delta_max, step)
call_ds_scan ==
    /\ pc = "lib"
    /\ fn' = "ds_max_strong_matches_in_scan"
    /\ arg' = logs
    /\ IF arange_raises(scan.step)
       THEN /\ deltas' = <<>>
            /\ ret' = <<>>
            /\ pc' = "raised"
       ELSE /\ deltas' = scan_deltas(scan.delta_min, scan.delta_max, scan.step)
            /\ LET r == ds_max_strong_matches_in_scan(logs, scan.delta_min,
                              scan.delta_max, scan.step, pairs)
               IN  ret' = <<r.max_strong, r.best_delta>>
            /\ pc' = "returned"
    /\ lib_unchanged

\* count_strong_all_pairs(rng.permutation(logs), delta, thresh)
call_count_strong_all_pairs ==
    /\ pc = "lib"
    /\ fn' = "count_strong_all_pairs"
    /\ \E q \in rng_permutation(logs) :
         /\ arg' = q
         /\ deltas' = <<>>
         /\ ret' = <<count_strong_all_pairs(q, args.delta, args.threshold)>>
    /\ lib_frame

\* count_strong_cross_domain(logs, n_base, delta, thresh)
call_count_strong_cross_domain ==
    /\ pc = "lib"
    /\ fn' = "count_strong_cross_domain"
    /\ arg' = logs
    /\ deltas' = <<>>
    /\ ret' = <<count_strong_cross_domain(logs, n_base, args.delta, args.threshold)>>
    /\ lib_frame

NextLib ==
    \/ call_count_strong_matches
    \/ call_oa_scan
    \/ call_ds_scan
    \/ call_count_strong_all_pairs
    \/ call_count_strong_cross_domain

SpecLib == InitLib /\ [][NextLib]_vars

(***************************************************************************)
(* Properties of the drivers (checked under Spec)                          *)
(***************************************************************************)
Running == script \in {"permutation_test", "delta_scan", "force_clustering"}

\* number of entries of a sequence of counts that satisfy s >= bound
entries_at_least(counts, bound) ==
    Cardinality({k \in 1..Len(counts) : counts[k] >= bound})

\* fractions with positive denominators
frac_less(a, b) == a.num * b.den < b.num * a.den

frac_equal(a, b) == a.num * b.den = b.num * a.den

\* the two-element scenario: sequence [0.0, 24.0], the single pair (0,1),
\* delta 24.0, threshold 0.2, in the fixed-pair driver and in the cross-domain
\* driver with one base structure and one added scale
C1_Scenario ==
    /\ pc \in {"loop", "done"}
    /\ logs = <<0, 24000>>
    /\ \/ script = "permutation_test" /\ pairs = << <<0, 1>> >>
       \/ /\ script = "force_clustering" /\ n_base = 1
          /\ args.delta = DEFAULT_DELTA /\ args.threshold = DEFAULT_THRESHOLD

\* C1 as stated: in the two-element scenario the observed count is 1, every
\* trial has count 1, the exceed count equals n_trials and both p-values are 1.
C1_Original ==
    C1_Scenario =>
        /\ observed_strong = 1
        /\ \A k \in 1..Len(random_counts) : random_counts[k] = 1
        /\ pc = "done" =>
              /\ count_exceeds = n_trials
              /\ p.num = p.den
              /\ p_upper # NoFraction => p_upper.num = p_upper.den

\* C1 amended: in the two-element scenario the observed count is 1; a trial
\* that drew the original ordering has count 1 and a trial that drew the
\* swapped ordering [24.0, 0.0] has deviation 48 and count 0; the exceed count
\* is the number of trials with the original ordering; p_empirical is that
\* count over n_trials and p_upper, where the driver computes it, is
\* (count+1)/(n_trials+1); both are 1 exactly when no trial drew the swap.
C1_Amended ==
    C1_Scenario =>
        /\ observed_strong = 1
        /\ \A k \in 1..Len(random_counts) : random_counts[k] \in {0, 1}
        /\ i >= 1 => random_counts[i] = (IF permuted = logs THEN 1 ELSE 0)
        /\ i >= 1 /\ permuted # logs => permuted = <<24000, 0>>
        /\ count_exceeds = Cardinality({k \in 1..Len(random_counts) : random_counts[k] = 1})
        /\ pc = "done" =>
              /\ p = [num |-> count_exceeds, den |-> n_trials]
              /\ p_upper # NoFraction =>
                    p_upper = [num |-> count_exceeds + 1, den |-> n_trials + 1]
              /\ (p.num = p.den) <=> (\A k \in 1..Len(random_counts) : random_counts[k] = 1)

\* a finished run of the scenario in which both orderings were drawn
C1_Witness ==
    /\ C1_Scenario /\ pc = "done" /\ script = "permutation_test"
    /\ 0 < count_exceeds /\ count_exceeds < n_trials
    /\ permuted = <<24000, 0>>

\* C3 as stated: for n_trials >= 1 and 0 <= count <= n_trials, p_upper is
\* strictly greater than p_empirical and strictly greater than 0.
C3_Original ==
    (Running /\ pc = "done" /\ p_upper # NoFraction /\ n_trials >= 1) =>
        /\ count_exceeds \in 0..n_trials
        /\ frac_less(p, p_upper)
        /\ p_upper.num > 0 /\ p_upper.den > 0

\* C3 amended: for n_trials >= 1 and 0 <= count <= n_trials, p_upper is
\* strictly greater than 0 and at least p_empirical; it is strictly greater
\* than p_empirical exactly when count < n_trials, and both are 1 when
\* count = n_trials.
C3_Amended ==
    (Running /\ pc = "done" /\ p_upper # NoFraction /\ n_trials >= 1) =>
        /\ count_exceeds \in 0..n_trials
        /\ p_upper.num > 0 /\ p_upper.den > 0
        /\ frac_less(p, p_upper) <=> count_exceeds < n_trials
        /\ frac_equal(p, p_upper) <=> count_exceeds = n_trials
        /\ count_exceeds = n_trials => p.num = p.den /\ p_upper.num = p_upper.den

\* a finished run in which no trial reached the observed statistic
C3_Witness ==
    /\ Running /\ pc = "done" /\ p_upper # NoFraction
    /\ n_trials >= 2 /\ count_exceeds = 0
    /\ p.num = 0 /\ p_upper.num = 1

\* the statistic each driver applies, on the unpermuted sequence
observed_statistic ==
    CASE script = "permutation_test" ->
            np_sum_le(pt_get_deviations(logs, DEFAULT_DELTA, pairs), DEFAULT_THRESHOLD)
      [] script = "delta_scan" ->
            ds_max_strong_matches_in_scan(logs, DEFAULT_DELTA_MIN, DEFAULT_DELTA_MAX,
                                          DEFAULT_STEP, pairs).max_strong
      [] script = "force_clustering" ->
            count_strong_cross_domain(logs, n_base, args.delta, args.threshold)

\* C4: after every trial, and when the loop has ended, the exceed counter is
\* the number of Null Distribution entries s with s >= observed (a tie with the
\* observed statistic is counted), observed being the statistic of the
\* unpermuted sequence.
C4_ExceedCount ==
    (Running /\ pc # "start") =>
        /\ observed_strong = observed_statistic
        /\ count_exceeds = entries_at_least(random_counts, observed_strong)

\* a finished run with a trial that tied the observed statistic (counted) and
\* a trial below it (not counted)
C4_Witness ==
    /\ Running /\ pc = "done" /\ observed_strong >= 1
    /\ \E k \in 1..Len(random_counts) : random_counts[k] = observed_strong
    /\ \E k \in 1..Len(random_counts) : random_counts[k] < observed_strong
    /\ count_exceeds >= 1 /\ count_exceeds < Len(random_counts)

\* the trial count main() ends up with: min(n_trials, 2000) under --smoke
effective_trials ==
    IF script = "force_clustering" /\ args.smoke /\ args.n_trials > SMOKE_TRIALS
    THEN SMOKE_TRIALS ELSE args.n_trials

\* C5 as stated: p-values are computed only once the Null Distribution holds
\* as many entries as the requested n_trials.
C5_Original ==
    (Running /\ pc = "done") => Len(random_counts) = args.n_trials

\* C5 amended: the Null Distribution is append-only, trial k appends exactly
\* one entry and leaves entries 1..k-1 alone, so its length is k after k
\* trials; the p-values are computed only once its length equals the effective
\* trial count, which is the requested n_trials, or min(n_trials, 2000) when
\* --smoke is given (no trial at all when that count is not positive).
C5_Amended ==
    [][Running =>
        /\ \/ random_counts' = random_counts /\ i' = i
           \/ /\ i' = i + 1
              /\ Len(random_counts') = Len(random_counts) + 1
              /\ SubSeq(random_counts', 1, Len(random_counts)) = random_counts
        /\ Len(random_counts') = i'
        /\ p' # NoFraction => Len(random_counts') = Max2(0, effective_trials)
        /\ pc' = "done" => Len(random_counts') = effective_trials]_vars

\* a finished --smoke run that was asked for more than 2000 trials
C5_Witness ==
    /\ script = "force_clustering" /\ pc = "done" /\ args.smoke
    /\ args.n_trials > SMOKE_TRIALS
    /\ Len(random_counts) = SMOKE_TRIALS
    /\ p # NoFraction /\ p_upper # NoFraction

\* b holds every value exactly as often as a does
same_values(a, b) ==
    /\ Len(a) = Len(b)
    /\ \A k \in 1..Len(a) :
         Cardinality({m \in 1..Len(b) : b[m] = a[k]})
             = Cardinality({m \in 1..Len(a) : a[m] = a[k]})

\* C6: in every trial the permuted sequence is a rearrangement of the Scale
\* Sequence (same length, every value as often as in the original), and no
\* trial changes the Scale Sequence or the Pair Set.
C6_Frame ==
    [][(Running /\ pc = "loop") =>
        /\ logs' = logs
        /\ pairs' = pairs
        /\ i' = i + 1 => same_values(logs, permuted')]_vars

\* the loop after two trials, the last of which moved a value
C6_Witness ==
    /\ Running /\ pc = "loop" /\ i >= 2
    /\ Len(logs) >= 3
    /\ permuted # logs

(***************************************************************************)
(* Properties of the library functions (checked under SpecLib)             *)
(***************************************************************************)
Returned(f) == pc = "returned" /\ fn = f

ScanReturned ==
    pc = "returned"
    /\ fn \in {"oa_max_strong_matches_in_scan", "ds_max_strong_matches_in_scan"}

\* delta_min <= delta_max and step > 0
ValidScan == scan.delta_min <= scan.delta_max /\ scan.step > 0

\* the threshold a scanner works with: delta_scan.py has the literal 0.2
scan_threshold ==
    IF fn = "ds_max_strong_matches_in_scan" THEN DEFAULT_THRESHOLD ELSE args.threshold

\* number of pairs (i,j) of the Pair Set with |(arr[j] - arr[i]) - d| <= t
pairs_within(arr, d, t) ==
    Cardinality({k \in 1..Len(pairs) :
        abs((arr[pairs[k][2] + 1] - arr[pairs[k][1] + 1]) - d) <= t})

\* number of ordered index pairs (a,b), a # b, with |(arr[b] - arr[a]) - d| <= t
ordered_pairs_within(arr, d, t) ==
    Cardinality({ab \in (1..Len(arr)) \X (1..Len(arr)) :
        ab[1] # ab[2] /\ abs((arr[ab[2]] - arr[ab[1]]) - d) <= t})

\* the spacings the scanner went through, in order, and as a set
grid == deltas

grid_set == {grid[k] : k \in 1..Len(grid)}

\* {delta_min + k*step : k = 0 .. floor((delta_max - delta_min)/step)}
inclusive_grid ==
    {scan.delta_min + k * scan.step :
        k \in 0..((scan.delta_max - scan.delta_min) \div scan.step)}

\* C2 as stated: count_strong_all_pairs returns the same value on every
\* permutation of the sequence.
C2_Original ==
    Returned("count_strong_all_pairs") =>
        ret[1] = count_strong_all_pairs(logs, args.delta, args.threshold)

\* C2 amended: count_strong_all_pairs counts the index pairs i < j whose signed
\* difference arr[j] - arr[i] is within the threshold of delta, so for
\* delta # 0 it depends on the arrangement; what is the same on every
\* permutation is the count at delta plus the count at -delta (the number of
\* ordered pairs within the threshold of delta), and, for delta = 0, the
\* all-pairs count itself.
C2_Amended ==
    Returned("count_strong_all_pairs") =>
        /\ same_values(logs, arg)
        /\ ret[1] + count_strong_all_pairs(arg, -args.delta, args.threshold)
              = ordered_pairs_within(logs, args.delta, args.threshold)
        /\ args.delta = 0 => ret[1] = count_strong_all_pairs(logs, 0, args.threshold)

\* a rearrangement on which the count at a non-zero delta differs from the
\* count of the original arrangement
C2_Witness ==
    /\ Returned("count_strong_all_pairs")
    /\ arg # logs /\ args.delta # 0
    /\ ret[1] >= 1
    /\ ret[1] # count_strong_all_pairs(logs, args.delta, args.threshold)

\* C7: for every sequence, Pair Set and valid scan range, each
\* max_strong_matches_in_scan returns (max_count, best_delta) where max_count
\* is the largest count over the grid, the count at best_delta is max_count,
\* and no earlier (smaller) grid spacing reaches max_count.
C7_ScanMax ==
    (ScanReturned /\ ValidScan) =>
        /\ \A k \in 1..Len(grid) :
              pairs_within(arg, grid[k], scan_threshold) <= ret[1]
        /\ \E k \in 1..Len(grid) :
              /\ ret[2] = Float(grid[k])
              /\ pairs_within(arg, grid[k], scan_threshold) = ret[1]
              /\ \A m \in 1..(k - 1) :
                    pairs_within(arg, grid[m], scan_threshold) < ret[1]

\* C8: with an empty Pair Set the count is 0 for every delta and each scanner
\* returns exactly (0, delta_min) for every valid scan range.
C8_EmptyPairs ==
    (pc = "returned" /\ pairs = << >>) =>
        /\ fn = "count_strong_matches" => ret = <<0>>
        /\ (ScanReturned /\ ValidScan) =>
              ret = <<0, Float(scan.delta_min)>>

\* C9: for delta_min <= delta_max and step > 0 the spacings a scanner
\* evaluates are exactly the inclusive grid: it starts at delta_min, holds
\* delta_max when the range is a whole multiple of step, holds nothing above
\* delta_max, and for delta_min = delta_max is the single point delta_min,
\* where max_count is the count at that delta.
C9_InclusiveGrid ==
    (ScanReturned /\ ValidScan) =>
        /\ grid_set = inclusive_grid
        /\ Len(grid) >= 1 /\ grid[1] = scan.delta_min
        /\ (scan.delta_max - scan.delta_min) % scan.step = 0 =>
              scan.delta_max \in grid_set
        /\ \A d \in grid_set : d <= scan.delta_max
        /\ scan.delta_min = scan.delta_max =>
              /\ grid = <<scan.delta_min>>
              /\ ret[1] = pairs_within(arg, scan.delta_min, scan_threshold)

\* C10: count_strong_matches is the number of pairs (i,j) of the Pair Set with
\* |(values[j] - values[i]) - delta| <= threshold; a deviation equal to the
\* threshold is counted, a larger one is not.
C10_CountStrong ==
    Returned("count_strong_matches") =>
        ret = <<pairs_within(arg, args.delta, args.threshold)>>

\* a call with one pair exactly at the threshold and one pair just above it
C10_Witness ==
    /\ Returned("count_strong_matches")
    /\ args.threshold > 0
    /\ ret = <<1>>
    /\ \E k \in 1..Len(pairs) :
          abs((arg[pairs[k][2] + 1] - arg[pairs[k][1] + 1]) - args.delta) = args.threshold
    /\ \E k \in 1..Len(pairs) :
          abs((arg[pairs[k][2] + 1] - arg[pairs[k][1] + 1]) - args.delta)
              = args.threshold + 1

\* number of index pairs (i,j), 0 <= i < nb <= j < len(arr), with
\* |(arr[j] - arr[i]) - d| <= t
cross_pairs_within(arr, nb, d, t) ==
    Cardinality({ij \in (0..(nb - 1)) \X (nb..(Len(arr) - 1)) :
        abs((arr[ij[2] + 1] - arr[ij[1] + 1]) - d) <= t})

\* base group [0.0, 24.1], added group [24.0], delta 24.0, threshold 0.2
C11_Scenario ==
    /\ arg = <<0, 24100, 24000>> /\ n_base = 2
    /\ args.delta = DEFAULT_DELTA /\ args.threshold = DEFAULT_THRESHOLD

\* C11: for a split point 0 <= n_base <= len(arr), count_strong_cross_domain
\* is the number of index pairs (i,j) with 0 <= i < n_base <= j < len(arr) and
\* |(arr[j] - arr[i]) - delta| <= thresh; pairs inside the base group or inside
\* the added group are never counted, so the result is at most
\* n_base * (len(arr) - n_base) and is 0 when the added group is empty; for
\* base [0.0, 24.1], added [24.0], delta 24.0, threshold 0.2 it is 1.
C11_CrossDomain ==
    Returned("count_strong_cross_domain") =>
        /\ ret = <<cross_pairs_within(arg, n_base, args.delta, args.threshold)>>
        /\ ret[1] >= 0
        /\ ret[1] <= n_base * (Len(arg) - n_base)
        /\ n_base = Len(arg) => ret[1] = 0
        /\ C11_Scenario => ret[1] = 1

\* the scenario's call: the pair (0,2) across the groups is counted, the pair
\* (0,1) inside the base group has deviation 0.1 and is not (all pairs give 2)
C11_Witness ==
    /\ Returned("count_strong_cross_domain")
    /\ C11_Scenario
    /\ ret = <<1>>
    /\ strong_pair(arg, 0, 1, args.delta, args.threshold)
    /\ count_strong_all_pairs(arg, args.delta, args.threshold) = 2

(***************************************************************************)
(* Invalid configurations                                                  *)
(***************************************************************************)
\* C12: a trial count n_trials <= 0 is rejected before any trial runs and
\* before any p-value is computed or printed: no run with n_trials <= 0
\* reaches a state in which p_empirical or p_upper has a value.  (main prints
\* the results in the statements right after p_upper is computed, lines
\* 139-145, so a computed p_upper is a printed one.)
C12_NonPositiveTrials ==
    (Running /\ args.n_trials <= 0) =>
        /\ i = 0 /\ random_counts = << >>
        /\ p = NoFraction
        /\ p_upper = NoFraction
        /\ pc # "done"

ScanCalled ==
    pc \in {"returned", "raised"}
    /\ fn \in {"oa_max_strong_matches_in_scan", "ds_max_strong_matches_in_scan"}

\* C13: a scan range with delta_max < delta_min or step <= 0 is rejected: the
\* scanner returns no (max_count, best_delta) for it, in particular no
\* negative max_count and no undefined best_delta.
C13_InvalidRange ==
    (ScanCalled /\ ~ValidScan) =>
        /\ pc = "raised"
        /\ ret = << >>

=============================================================================
